---- MODULE Spec2Model ----
(***************************************************************************)
(* Enumeration of all maximum matchings of a bipartite graph               *)
(* (bipartitematching.py).  The recursion of enumMaximumMatchingIter is    *)
(* unfolded into a stack of pending calls: the head of the stack is the    *)
(* call that runs next, and one action runs the body of one call.          *)
(*                                                                         *)
(* A matching (a Python list of tuples) is kept as the set of its tuples:  *)
(* the code reads such a list only through "in", set() and iteration into  *)
(* sets, and builds it from distinct arcs.  add_e = None is the empty set. *)
(* Where the code takes element 0 of a list whose order is that of a set   *)
(* or dict (cycles[0], list(e)[0], all_uncovered, len2paths[0]), the       *)
(* action may take any element.                                            *)
(***************************************************************************)
EXTENDS Integers, Sequences, FiniteSets, TLC

\* Largest number of vertices of an input graph; vertices are 1..n.
MaxNodes == 5

\* Largest number of edges of a graph on which both implementations are run.
MaxEdges == 6

VARIABLES
    g,            \* the input graph: [node |-> attribute dict, edges |-> set of pairs]
    pc,           \* "init", "iter" (inside the recursion), "done" (returned), "error"
    stack,        \* pending calls of enumMaximumMatchingIter, next call first
    all_matches,  \* the list all_matches
    call,         \* the call of enumMaximumMatchingIter that ran last
    pc2,          \* enumMaximumMatching2: "init", "iter", "done"
    stack2,       \* pending calls of enumMaximumMatchingIter2, next call first
    all_matchadj, \* the list all_matches of enumMaximumMatching2 (matrices)
    all_matches2  \* the list all_matches2 that enumMaximumMatching2 returns

listvars == <<pc, stack, all_matches, call>>

adjvars == <<pc2, stack2, all_matchadj, all_matches2>>

vars == <<g, pc, stack, all_matches, call, pc2, stack2, all_matchadj, all_matches2>>

----------------------------------------------------------------------------
(* Graphs.  g.node[v] is the 'bipartite' attribute of v; an undirected edge *)
(* is stored once, as the pair g.edges() reports (here lower vertex first; *)
(* formDirected directs an edge between the two sides the same way in      *)
(* whichever order it is reported).                                        *)

\* The 'bipartite' attribute given to vertex v: odd vertices 0, even ones 1.
Side(v) == (v + 1) % 2

Rev(p) == <<p[2], p[1]>>

Canon(p) == IF p[1] < p[2] THEN p ELSE Rev(p)

\* A list of pairs as a set of unordered edges.
EdgeSet(m) == {Canon(p) : p \in m}

Nodes(gr) == DOMAIN gr.node

Endpoints(m) == {p[1] : p \in m} \cup {p[2] : p \in m}

has_edge(gr, p) == p \in gr.edges \/ Rev(p) \in gr.edges

\* g.copy() followed by remove_node(v) for each v of vs.
remove_nodes(gr, vs) ==
    [node  |-> [v \in Nodes(gr) \ vs |-> gr.node[v]],
     edges |-> {p \in gr.edges : p[1] \notin vs /\ p[2] \notin vs}]

\* A remove_edge that leaves the graph as it is.
remove_edgeNot(gr, e) == gr

\* g.copy() followed by remove_edge(e[0], e[1]).
remove_edge(gr, e) ==
    [node |-> gr.node, edges |-> gr.edges \ {e, Rev(e)}]

\* nx.isolates(g)
isolates(gr) == {v \in Nodes(gr) : \A p \in gr.edges : p[1] # v /\ p[2] # v}

----------------------------------------------------------------------------
(* formDirected: matched edges point from set-0 to set-1, the others from  *)
(* set-1 to set-0.                                                         *)

formDirectedArc(gr, match, ee) ==
    IF ee \in match \/ Rev(ee) \in match
    THEN (IF gr.node[ee[1]] = 0 THEN ee ELSE Rev(ee))
    ELSE (IF gr.node[ee[1]] = 0 THEN Rev(ee) ELSE ee)

formDirected(gr, match) == {formDirectedArc(gr, match, ee) : ee \in gr.edges}

----------------------------------------------------------------------------
(* nx.simple_cycles(d): every simple directed cycle of d, each once.  A    *)
(* cycle is kept as the set of its arcs, which is all the code reads of it *)
(* ("ee in cycle", set(cycle)).                                            *)

Succ(d, v) == {a[2] : a \in {b \in d : b[1] = v}}

RECURSIVE CyclesThrough(_, _, _, _)
\* The cycles of d whose least vertex is s, continued from the simple path
\* that leaves s, ends in cur and has visited the vertices of seen.
CyclesThrough(d, s, cur, seen) ==
    UNION { IF w = s
            THEN {{<<cur, w>>}}
            ELSE IF w > s /\ w \notin seen
                 THEN {{<<cur, w>>} \cup c :
                           c \in CyclesThrough(d, s, w, seen \cup {w})}
                 ELSE {}
            : w \in Succ(d, cur) }

\* A cycle search that never finds a cycle.
simple_cyclesNone(d) == {}

simple_cycles(d) == UNION {CyclesThrough(d, a[1], a[1], {a[1]}) : a \in d}

----------------------------------------------------------------------------
(* The length-2 path search of the acyclic case.                           *)

\* set(g.node) minus the first and the second components of match
all_uncovered(gr, match) == Nodes(gr) \ Endpoints(match)

reverse(d) == {Rev(a) : a \in d}

\* nx.single_source_shortest_path(d, u, cutoff=2), the paths of 3 vertices:
\* one per vertex at distance exactly 2 from u.
len2pathsFrom(d, u) ==
    UNION { {<<u, w, x>> : x \in Succ(d, w) \ ({u} \cup Succ(d, u))}
            : w \in Succ(d, u) }

\* A path search that never tries the reversed digraph.
len2pathChoicesForwardOnly(d, u) ==
    {{<<t[1], t[2]>>, <<t[2], t[3]>>} : t \in len2pathsFrom(d, u)}

\* The arcs of the paths the search may select for the uncovered vertex u:
\* forward paths if there are any, otherwise the paths found in d.reverse(),
\* each turned round ([::-1]) before it is zipped into arcs.
len2pathChoices(d, u) ==
    IF len2pathsFrom(d, u) # {}
    THEN {{<<t[1], t[2]>>, <<t[2], t[3]>>} : t \in len2pathsFrom(d, u)}
    ELSE {{<<t[3], t[2]>>, <<t[2], t[1]>>} : t \in len2pathsFrom(reverse(d), u)}

\* The uncovered vertices at which the while loop can stop with a path.
\* all_uncovered is list(set): any of them can be the first that has a path.
PathVertices(gr, match, d) ==
    {u \in all_uncovered(gr, match) \ isolates(gr) : len2pathChoices(d, u) # {}}

\* A new matching that drops nothing: the matched arcs on the cycle or path
\* are kept beside the ones turned round.
toggledKeepsMatched(gr, d, sel) ==
    {Rev(ee) : ee \in {a \in d : a \in sel /\ gr.node[a[2]] = 0}}
        \cup {ee \in d : gr.node[ee[1]] = 0}

\* A new matching that toggles nothing: the current matching again.
toggledNothing(gr, d, sel) == {ee \in d : gr.node[ee[1]] = 0}

\* "Create a new matching M'": the arcs of d on the cycle or path (sel) that
\* end in set-0 are turned round, the others that start in set-0 are kept.
toggled(gr, d, sel) ==
    {Rev(ee) : ee \in {a \in d : a \in sel /\ gr.node[a[2]] = 0}}
        \cup {ee \in d : ee \notin sel /\ gr.node[ee[1]] = 0}

----------------------------------------------------------------------------
(* Matchings of a graph, by exhaustive search.                             *)

IsMatching(m) ==
    \A p, q \in m : p # q => {p[1], p[2]} \cap {q[1], q[2]} = {}

Matchings(gr) == {m \in SUBSET gr.edges : IsMatching(m)}

MaxOf(S) == CHOOSE n \in S : \A k \in S : k <= n

RECURSIVE Nu(_)
\* The size of a largest matching within the edge set E: one edge of E is
\* either left out or taken together with a matching of the edges clear of it.
Nu(E) ==
    IF E = {} THEN 0
    ELSE LET e == CHOOSE x \in E : TRUE
             without == Nu(E \ {e})
             with == 1 + Nu({x \in E : {x[1], x[2]} \cap {e[1], e[2]} = {}})
         IN  IF with > without THEN with ELSE without

MatchingNumber(gr) == Nu(gr.edges)

\* The maximum matchings of gr, each a set of stored edges.
MaximumMatchings(gr) ==
    LET all == Matchings(gr)
        best == MaxOf({Cardinality(m) : m \in all})
    IN  {m \in all : Cardinality(m) = best}

\* The solver splits the vertices by 2-colouring the graph; it never reads
\* the 'bipartite' attribute.
is_bipartite(gr) ==
    \E c \in [Nodes(gr) -> {0, 1}] : \A p \in gr.edges : c[p[1]] # c[p[2]]

\* bipartite.hopcroft_karp_matching(g): a dict that maps every matched vertex
\* to its partner, so every matched edge appears in both directions.  Which
\* maximum matching it holds is the solver's choice.  On a graph that has
\* no 2-colouring the solver raises instead (SolverRaises).
hopcroft_karp_matching(gr) ==
    IF is_bipartite(gr)
    THEN {m \cup {Rev(p) : p \in m} : m \in MaximumMatchings(gr)}
    ELSE {}

----------------------------------------------------------------------------
Frame(gr, match, add_e, depth) ==
    [g |-> gr, match |-> match, add_e |-> add_e, depth |-> depth]

NoEdge == <<0, 0>>

NoCall == [kind |-> "none", g |-> [node |-> <<>>, edges |-> {}], match |-> {},
           add_e |-> {}, sel |-> {}, e |-> NoEdge, new_match |-> {}, depth |-> 0]

\* The pairs of vertices of 1..n that may be joined: any two distinct
\* vertices, or (bipartite) only vertices of opposite sides.
Pairs(n, bipartite) ==
    {p \in (1..n) \X (1..n) :
        p[1] < p[2] /\ (bipartite => Side(p[1]) # Side(p[2]))}

\* The graphs on the vertices 1..n with at most k of those edges.
Graphs(n, bipartite, k) ==
    { [node |-> [v \in 1..n |-> Side(v)], edges |-> E] :
        E \in {F \in SUBSET Pairs(n, bipartite) : Cardinality(F) <= k} }

\* The cyclic split as the specification words it: the matchings of the
\* two calls exchanged, the new matching without the forced edges.
cycleSubproblemsAsSpecified(f, e, new_match) ==
    <<Frame(remove_edge(f.g, e), f.match, f.add_e, f.depth + 1),
      Frame(remove_nodes(f.g, {e[1], e[2]}), new_match \ f.add_e,
            {e} \cup f.add_e, f.depth + 1)>>

\* "Form subproblems" of the cyclic case: the call on g_minus with the new
\* matching, then the call on g_plus with the matching the call came with.
cycleSubproblems(f, e, new_match) ==
    <<Frame(remove_edge(f.g, e), new_match, f.add_e, f.depth + 1),
      Frame(remove_nodes(f.g, {e[1], e[2]}), f.match,
            {e} \cup f.add_e, f.depth + 1)>>

\* "Form subproblems" of the path case: the call on g_minus with the
\* matching the call came with, then the call on g_plus with the new one.
pathSubproblems(f, e, new_match) ==
    <<Frame(remove_edge(f.g, e), f.match, f.add_e, f.depth + 1),
      Frame(remove_nodes(f.g, {e[1], e[2]}), new_match,
            {e} \cup f.add_e, f.depth + 1)>>

\* Any bipartite graph on up to MaxNodes vertices (n * n edges bound nothing).
Init ==
    /\ \E n \in 0..MaxNodes : g \in Graphs(n, TRUE, n * n)
    /\ pc = "init"
    /\ stack = <<>>
    /\ all_matches = <<>>
    /\ call = NoCall
    /\ pc2 = "init"
    /\ stack2 = <<>>
    /\ all_matchadj = <<>>
    /\ all_matches2 = <<>>

\* enumMaximumMatching up to the first call of enumMaximumMatchingIter.
enumMaximumMatching ==
    /\ pc = "init"
    /\ \E hk \in hopcroft_karp_matching(g) :
          LET match2 == {p \in hk : g.node[p[1]] = 0}
          IN  /\ all_matches' = <<match2>>
              /\ stack' = <<Frame(g, match2, {}, 0)>>
    /\ pc' = "iter"
    /\ UNCHANGED <<g, call, adjvars>>

\* The cyclic case of enumMaximumMatchingIter: cycles[0] can be any simple
\* cycle of d, and e any element of set(match).intersection(set(cycle)).
IterCycle ==
    /\ pc = "iter" /\ stack # <<>>
    /\ LET f == Head(stack)
           d == formDirected(f.g, f.match)
       IN  \E cycle \in simple_cycles(d) :
             LET new_match == toggled(f.g, d, cycle) \cup f.add_e
             IN  \E e \in f.match \cap cycle :
                   /\ all_matches' = Append(all_matches, new_match)
                   /\ stack' = cycleSubproblems(f, e, new_match) \o Tail(stack)
                   /\ call' = [kind |-> "cycle", g |-> f.g, match |-> f.match,
                               add_e |-> f.add_e, sel |-> cycle, e |-> e,
                               new_match |-> new_match, depth |-> f.depth]
    /\ UNCHANGED <<g, pc, adjvars>>

\* The acyclic case with a length-2 path; e is the path arc not in match.
IterPath ==
    /\ pc = "iter" /\ stack # <<>>
    /\ LET f == Head(stack)
           d == formDirected(f.g, f.match)
       IN  /\ simple_cycles(d) = {}
           /\ \E uncovered \in PathVertices(f.g, f.match, d) :
              \E len2path \in len2pathChoices(d, uncovered) :
                LET new_match == toggled(f.g, d, len2path) \cup f.add_e
                IN  \E e \in len2path \ f.match :
                      /\ all_matches' = Append(all_matches, new_match)
                      /\ stack' = pathSubproblems(f, e, new_match) \o Tail(stack)
                      /\ call' = [kind |-> "path", g |-> f.g, match |-> f.match,
                                  add_e |-> f.add_e, sel |-> len2path, e |-> e,
                                  new_match |-> new_match, depth |-> f.depth]
    /\ UNCHANGED <<g, pc, adjvars>>

\* The acyclic case with no uncovered vertex, or none that starts a path:
\* the call returns all_matches as it got it.
IterLeaf ==
    /\ pc = "iter" /\ stack # <<>>
    /\ LET f == Head(stack)
           d == formDirected(f.g, f.match)
       IN  /\ simple_cycles(d) = {}
           /\ PathVertices(f.g, f.match, d) = {}
           /\ call' = [kind |-> "leaf", g |-> f.g, match |-> f.match,
                       add_e |-> f.add_e, sel |-> {}, e |-> NoEdge,
                       new_match |-> {}, depth |-> f.depth]
    /\ stack' = Tail(stack)
    /\ UNCHANGED <<g, pc, all_matches, adjvars>>

\* The top-level call has returned: enumMaximumMatching returns all_matches.
Return ==
    /\ pc = "iter" /\ stack = <<>>
    /\ pc' = "done"
    /\ UNCHANGED <<g, stack, all_matches, call, adjvars>>

Next == enumMaximumMatching \/ IterCycle \/ IterPath \/ IterLeaf \/ Return

Spec == Init /\ [][Next]_vars

\* The recursion is synchronous and single-threaded: a call that can run, runs.
SpecFair == Spec /\ WF_vars(Next)

----------------------------------------------------------------------------
(* The entry of enumMaximumMatching on graphs whose edges are not confined *)
(* to pairs of opposite sides.                                             *)

InitEntry ==
    /\ \E n \in 0..MaxNodes : g \in Graphs(n, FALSE, n * n)
    /\ pc = "init"
    /\ stack = <<>>
    /\ all_matches = <<>>
    /\ call = NoCall
    /\ pc2 = "init"
    /\ stack2 = <<>>
    /\ all_matchadj = <<>>
    /\ all_matches2 = <<>>

\* hopcroft_karp_matching raises on a graph without a 2-colouring, and
\* enumMaximumMatching catches nothing.
SolverRaises ==
    /\ pc = "init"
    /\ ~is_bipartite(g)
    /\ pc' = "error"
    /\ UNCHANGED <<g, stack, all_matches, call, adjvars>>

NextEntry == enumMaximumMatching \/ SolverRaises

SpecEntry == InitEntry /\ [][NextEntry]_vars

----------------------------------------------------------------------------
(* enumMaximumMatching2: the same enumeration on adjacency matrices.  A    *)
(* 0/1 matrix is kept as the set of the index pairs <<row, col>> that hold *)
(* 1; rows and columns are numbered from 0 as in the code.                 *)

RECURSIVE Sorted(_)
Sorted(S) ==
    IF S = {} THEN <<>>
    ELSE LET m == CHOOSE x \in S : \A y \in S : x <= y
         IN  <<m>> \o Sorted(S \ {m})

s1(gr) == {v \in Nodes(gr) : gr.node[v] = 0}

n1(gr) == Cardinality(s1(gr))

\* nodes=list(s1)+list(s2): the set-0 vertices come first.  nodes(gr)[i + 1]
\* is the vertex of row i.
nodes(gr) == Sorted(s1(gr)) \o Sorted(Nodes(gr) \ s1(gr))

\* nodes.index(v)
index(gr, v) == (CHOOSE i \in 1..Len(nodes(gr)) : nodes(gr)[i] = v) - 1

\* nx.adjacency_matrix(g, nodes): symmetric.
adjacency_matrix(gr) ==
    UNION { {<<index(gr, p[1]), index(gr, p[2])>>,
             <<index(gr, p[2]), index(gr, p[1])>>} : p \in gr.edges }

\* The matrix d: rows of set-0 hold the matched edges present in adj, rows
\* of set-1 hold the edges of adj that are not matched.
exchange(adj, matchadj, n) ==
    {a \in matchadj \cap adj : a[1] < n} \cup {a \in adj \ matchadj : a[1] >= n}

\* The new matching of the cyclic case: matched cycle arcs are cleared and
\* the other cycle arcs set, in both directions; then add_e is set.
cycleNewMatch(matchadj, cycle, add_e) ==
    ((matchadj \ UNION {{a, Rev(a)} : a \in cycle \cap matchadj})
        \cup UNION {{a, Rev(a)} : a \in cycle \ matchadj})
        \cup add_e

\* g_plus: rows and columns e[0] and e[1] are zeroed.
zero_nodes(adj, e) ==
    {a \in adj : a[1] \notin {e[1], e[2]} /\ a[2] \notin {e[1], e[2]}}

\* g_minus: the entries (e[0], e[1]) and (e[1], e[0]) are zeroed.
zero_edge(adj, e) == adj \ {e, Rev(e)}

\* numpy.where(numpy.sum(matchadj, axis=1) == 0): the rows without a 1.
uncovered2(gr, matchadj) ==
    {i \in 0..(Cardinality(Nodes(gr)) - 1) : \A a \in matchadj : a[1] # i}

\* aa = adj[ii,:].dot(matchadj), entry k: the neighbours of ii matched to k.
aa(adj, matchadj, ii, k) ==
    Cardinality({a \in adj : a[1] = ii /\ <<a[2], k>> \in matchadj})

\* The columns k with aa[k] == 1.
aaOnes(gr, adj, matchadj, ii) ==
    {k \in 0..(Cardinality(Nodes(gr)) - 1) : aa(adj, matchadj, ii, k) = 1}

\* The uncovered rows the scan does not skip (aa.sum() # 0).
feasible(gr, adj, matchadj) ==
    {ii \in uncovered2(gr, matchadj) :
        \E k \in 0..(Cardinality(Nodes(gr)) - 1) : aa(adj, matchadj, ii, k) # 0}

\* The rows at which the scan "for ii in uncovered" can stop.  It runs in
\* index order, so a set-0 row comes before every set-1 row; the order
\* within a side is that of list(s1) and list(s2), which is arbitrary.
firstFeasible(gr, adj, matchadj) ==
    LET fs == feasible(gr, adj, matchadj)
    IN  {ii \in fs : ii >= n1(gr) => \A jj \in fs : jj >= n1(gr)}

\* A path toggle that sets the new edge without clearing row and column feas2.
pathNewMatchKeepsOld(matchadj, feas2, e, add_e) ==
    (matchadj \cup {e, Rev(e)}) \cup add_e

\* The new matching of the path case: row and column feas2 are cleared, the
\* edge e = (feas1, e[1]) is set in both directions; then add_e is set.
pathNewMatch(matchadj, feas2, e, add_e) ==
    ({a \in matchadj : a[1] # feas2 /\ a[2] # feas2} \cup {e, Rev(e)}) \cup add_e

\* "Re-orient match arcs": the 1-entries of the first n1 rows, as vertex pairs.
match_list(gr, m) ==
    {<<nodes(gr)[a[1] + 1], nodes(gr)[a[2] + 1]>> : a \in {b \in m : b[1] < n1(gr)}}

Frame2(adj, matchadj, add_e, check_cycle) ==
    [adj |-> adj, matchadj |-> matchadj, add_e |-> add_e,
     check_cycle |-> check_cycle]

\* enumMaximumMatching2 up to the first call of enumMaximumMatchingIter2, on
\* the graph enumMaximumMatching has returned for, with the solver returning
\* the matching it returned then.
enumMaximumMatching2 ==
    /\ pc = "done" /\ pc2 = "init"
    /\ \E hk \in hopcroft_karp_matching(g) :
          /\ {p \in hk : g.node[p[1]] = 0} = all_matches[1]
          /\ LET matchadj == {<<index(g, p[1]), index(g, p[2])>> : p \in hk}
             IN  /\ all_matchadj' = <<matchadj>>
                 /\ stack2' = <<Frame2(adjacency_matrix(g), matchadj, {}, TRUE)>>
    /\ pc2' = "iter"
    /\ UNCHANGED <<g, listvars, all_matches2>>

\* "if check_cycle: ... cycles=list(nx.simple_cycles(dg))": no cycle is
\* looked for once an ancestor has found none.
cycles2(f, n) ==
    IF f.check_cycle THEN simple_cycles(exchange(f.adj, f.matchadj, n)) ELSE {}

\* The cyclic case of enumMaximumMatchingIter2; e is the last matched arc
\* of the cycle as listed, which can be any of its matched arcs.
Iter2Cycle ==
    /\ pc2 = "iter" /\ stack2 # <<>>
    /\ LET f == Head(stack2)
       IN  \E cycle \in cycles2(f, n1(g)) :
           \E e \in cycle \cap f.matchadj :
             LET new_match == cycleNewMatch(f.matchadj, cycle, f.add_e)
                 g_plus == zero_nodes(f.adj, e)
                 g_minus == zero_edge(f.adj, e)
                 add_e_new == {e} \cup f.add_e
             IN  /\ all_matchadj' = Append(all_matchadj, new_match)
                 /\ stack2' = <<Frame2(g_minus, new_match, f.add_e, TRUE),
                                Frame2(g_plus, f.matchadj, add_e_new, TRUE)>>
                              \o Tail(stack2)
    /\ UNCHANGED <<g, listvars, pc2, all_matches2>>

\* The acyclic case with a feasible path.
Iter2Path ==
    /\ pc2 = "iter" /\ stack2 # <<>>
    /\ LET f == Head(stack2)
       IN  /\ cycles2(f, n1(g)) = {}
           /\ \E feas1 \in firstFeasible(g, f.adj, f.matchadj) :
              \E feas2 \in aaOnes(g, f.adj, f.matchadj, feas1) :
              \E e1 \in {a[1] : a \in {b \in f.matchadj : b[2] = feas2}} :
                LET e == <<feas1, e1>>
                    new_match == pathNewMatch(f.matchadj, feas2, e, f.add_e)
                    g_plus == zero_nodes(f.adj, e)
                    g_minus == zero_edge(f.adj, e)
                    add_e_new == {e} \cup f.add_e
                IN  /\ all_matchadj' = Append(all_matchadj, new_match)
                    /\ stack2' = <<Frame2(g_minus, f.matchadj, f.add_e, FALSE),
                                   Frame2(g_plus, new_match, add_e_new, FALSE)>>
                                 \o Tail(stack2)
    /\ UNCHANGED <<g, listvars, pc2, all_matches2>>

\* The acyclic case with no uncovered row, or none with a feasible path.
Iter2Leaf ==
    /\ pc2 = "iter" /\ stack2 # <<>>
    /\ LET f == Head(stack2)
       IN  /\ cycles2(f, n1(g)) = {}
           /\ feasible(g, f.adj, f.matchadj) = {}
    /\ stack2' = Tail(stack2)
    /\ UNCHANGED <<g, listvars, pc2, all_matchadj, all_matches2>>

\* The top-level call has returned: the matrices are turned into lists of
\* vertex pairs and returned.
Return2 ==
    /\ pc2 = "iter" /\ stack2 = <<>>
    /\ all_matches2' = [i \in 1..Len(all_matchadj) |-> match_list(g, all_matchadj[i])]
    /\ pc2' = "done"
    /\ UNCHANGED <<g, listvars, stack2, all_matchadj>>

NextBoth ==
    \/ enumMaximumMatching \/ IterCycle \/ IterPath \/ IterLeaf \/ Return
    \/ enumMaximumMatching2 \/ Iter2Cycle \/ Iter2Path \/ Iter2Leaf \/ Return2

InitBoth ==
    /\ \E n \in 0..MaxNodes : g \in Graphs(n, TRUE, MaxEdges)
    /\ pc = "init"
    /\ stack = <<>>
    /\ all_matches = <<>>
    /\ call = NoCall
    /\ pc2 = "init"
    /\ stack2 = <<>>
    /\ all_matchadj = <<>>
    /\ all_matches2 = <<>>

\* A caller that calls enumMaximumMatching(g) and then enumMaximumMatching2(g).
SpecBoth == InitBoth /\ [][NextBoth]_vars

----------------------------------------------------------------------------
(* Properties.                                                             *)

Returned == {all_matches[i] : i \in 1..Len(all_matches)}

\* C1: exhaustiveness.  When enumMaximumMatching has returned, every maximum
\* matching of g is in the returned list, the list is as long as the number
\* of maximum matchings of g found by exhaustive search, and for the graph
\* without vertices the list is exactly one empty matching.
Exhaustive ==
    pc = "done" =>
        /\ MaximumMatchings(g) \subseteq {EdgeSet(m) : m \in Returned}
        /\ Len(all_matches) = Cardinality(MaximumMatchings(g))
        /\ (Nodes(g) = {} => all_matches = <<{}>>)

ExhaustiveWitness ==
    /\ pc = "done"
    /\ Cardinality(MaximumMatchings(g)) >= 4
    /\ Len(all_matches) >= 4

\* C2: uniqueness.  When enumMaximumMatching has returned, no two entries of
\* the returned list are the same set of unordered edges.
Unique ==
    pc = "done" =>
        \A i, j \in 1..Len(all_matches) :
            i # j => EdgeSet(all_matches[i]) # EdgeSet(all_matches[j])

UniqueWitness ==
    /\ pc = "done"
    /\ Len(all_matches) >= 3
    /\ \E i \in 1..Len(all_matches) : all_matches[i] \cap call.add_e # {}

ValidMatchingOf(gr, m) ==
    /\ \A p \in m : has_edge(gr, p)
    /\ IsMatching(m)

\* C3: every matching appended to all_matches is a matching of the input
\* graph g (each pair joins two adjacent vertices, no vertex is covered
\* twice) and has as many pairs as a maximum matching of g, which is the
\* size of the seed all_matches[0].
AppendedAreMaximum ==
    LET nu == MatchingNumber(g)
    IN  \A i \in 1..Len(all_matches) :
            /\ ValidMatchingOf(g, all_matches[i])
            /\ Cardinality(all_matches[i]) = nu
            /\ Cardinality(all_matches[i]) = Cardinality(all_matches[1])

AppendedAreMaximumWitness ==
    /\ call.kind \in {"cycle", "path"}
    /\ call.add_e # {}
    /\ all_matches[Len(all_matches)] = call.new_match
    /\ Cardinality(call.new_match) >= 2

OrientedPair(p) == g.node[p[1]] = 0 /\ g.node[p[2]] = 1

\* C4: every pair of every returned matching is (set-0 vertex, set-1 vertex),
\* the forced edges appended through add_e included.
Oriented ==
    pc = "done" => \A m \in Returned : \A p \in m : OrientedPair(p)

\* C5: choice independence.  The set of returned matchings, as a set of edge
\* sets, is a function of g alone: whatever seed the solver returned and
\* whichever cycle, edge, uncovered vertex and path each call took, it is
\* the set MaximumMatchings(g).
ChoiceIndependent ==
    pc = "done" => {EdgeSet(m) : m \in Returned} = MaximumMatchings(g)

ChoiceIndependentWitness ==
    /\ pc = "done"
    /\ Len(all_matches) >= 3
    /\ EdgeSet(all_matches[1]) # CHOOSE m \in MaximumMatchings(g) : TRUE

HasSameSideEdge(gr) == \E p \in gr.edges : gr.node[p[1]] = gr.node[p[2]]

\* C6: a graph with an edge between two vertices of the same side is
\* rejected at entry: enumMaximumMatching ends in an error, calls
\* enumMaximumMatchingIter never and builds no list of matchings.
RejectsInvalidGraph ==
    (HasSameSideEdge(g) /\ pc # "init") =>
        (pc = "error" /\ stack = <<>> /\ all_matches = <<>>)

SymDiff(A, B) == (A \ B) \cup (B \ A)

\* C7 as the specification states it: after a cyclic call, the call on the
\* graph minus e carries the unchanged matching and the unchanged forced
\* edges, the call on the graph minus the endpoints of e carries the new
\* matching and the forced edges plus e.
CycleSplitAsSpecified ==
    call.kind = "cycle" =>
        \E i, j \in 1..2 :
            /\ i # j
            /\ stack[i].g = remove_edge(call.g, call.e)
            /\ stack[i].match = call.match
            /\ stack[i].add_e = call.add_e
            /\ stack[j].g = remove_nodes(call.g, {call.e[1], call.e[2]})
            /\ stack[j].match = call.new_match
            /\ stack[j].add_e = call.add_e \cup {call.e}

\* C7, amended: after a cyclic call with the matched cycle edge e, the next
\* call is on the graph minus e (vertices retained) with the NEW matching
\* (the matching toggled along the cycle, with the forced edges appended, as
\* it was appended to all_matches) and the unchanged forced edges; the call
\* after it is on the graph minus both endpoints of e with the UNCHANGED
\* matching and the forced edges plus e.
CycleSplit ==
    call.kind = "cycle" =>
        /\ call.e \in call.match \cap call.sel
        /\ Len(stack) >= 2
        /\ stack[1].g = [node |-> call.g.node,
                         edges |-> call.g.edges \ {Canon(call.e)}]
        /\ stack[1].match = all_matches[Len(all_matches)]
        /\ EdgeSet(stack[1].match) =
              SymDiff(EdgeSet(call.match) \cap call.g.edges, EdgeSet(call.sel))
                  \cup EdgeSet(call.add_e)
        /\ stack[1].add_e = call.add_e
        /\ Nodes(stack[2].g) = Nodes(call.g) \ {call.e[1], call.e[2]}
        /\ stack[2].g.edges =
              {p \in call.g.edges : {p[1], p[2]} \cap {call.e[1], call.e[2]} = {}}
        /\ stack[2].match = call.match
        /\ stack[2].add_e = call.add_e \cup {call.e}

CycleSplitWitness ==
    /\ call.kind = "cycle"
    /\ Len(stack) >= 2
    /\ stack[1].match # stack[2].match
    /\ Cardinality(call.sel) >= 4

Smaller(child, parent) ==
    /\ Nodes(child) \subseteq Nodes(parent)
    /\ child.edges \subseteq parent.edges
    /\ \/ Cardinality(child.edges) < Cardinality(parent.edges)
       \/ Cardinality(Nodes(child)) < Cardinality(Nodes(parent))

\* After a call that recursed, both child calls are on a graph with fewer
\* edges or fewer vertices than the parent's, one level deeper.
ShrinkStep ==
    call.kind \in {"cycle", "path"} =>
        \A i \in 1..2 : /\ Smaller(stack[i].g, call.g)
                        /\ stack[i].depth = call.depth + 1

\* No call is nested deeper than the input graph has edges (the top-level
\* call of enumMaximumMatchingIter is at depth 0).
DepthBound ==
    /\ call.depth <= Cardinality(g.edges)
    /\ \A i \in 1..Len(stack) : stack[i].depth <= Cardinality(g.edges)

\* C8: termination by strict shrinking.  Every child call gets a strictly
\* smaller graph than its parent, the recursion depth never exceeds the
\* number of edges of the input graph, and enumMaximumMatching returns.
Termination == [](ShrinkStep /\ DepthBound) /\ <>(pc = "done")

TerminationWitness ==
    /\ pc = "done"
    /\ call.depth >= 2
    /\ Len(all_matches) >= 5

\* C10: at every call of enumMaximumMatchingIter the argument match is a
\* list of edges of the argument g that is a maximum matching of g.
MatchIsMaximumMatchingOfActiveGraph ==
    \A i \in 1..Len(stack) :
        /\ ValidMatchingOf(stack[i].g, stack[i].match)
        /\ Cardinality(stack[i].match) = MatchingNumber(stack[i].g)

Returned2 == {all_matches2[i] : i \in 1..Len(all_matches2)}

\* C9: for the same graph and the same initial matching, the matrix-based
\* enumMaximumMatching2 returns the same set of matchings, as edge sets, as
\* the list-based enumMaximumMatching.
MatrixEqualsList ==
    (pc = "done" /\ pc2 = "done") =>
        {EdgeSet(m) : m \in Returned2} = {EdgeSet(m) : m \in Returned}

MatrixEqualsListWitness ==
    /\ pc = "done" /\ pc2 = "done"
    /\ Len(all_matches2) >= 4
    /\ \E i \in 1..Len(all_matchadj) :
          all_matchadj[i] # all_matchadj[1] /\ all_matchadj[i] \cap all_matchadj[1] # {}

====
